---------------------------- MODULE Spec2Model ----------------------------
(***************************************************************************)
(* Model of the AQI map-making Streamlit application.                      *)
(*                                                                         *)
(*   Spec      the animated-map script (src/Create_Animated_Maps.py; the   *)
(*             statements of src/pages/3_animator.py are the same): a      *)
(*             Streamlit script is re-executed from top to bottom on every *)
(*             widget interaction, st.session_state survives the re-runs.  *)
(*   SpecGrid  the multi-map grid page (src/pages/2_multi_map_grid.py).    *)
(*                                                                         *)
(* Numbers.  Coordinates of the evaluation lattice are rationals; they are *)
(* kept as integers scaled by (resolution - 1).  A float NaN is an integer *)
(* outside every range the model computes with, Python's None is a record  *)
(* of its own and a value that may be None is wrapped by Some.  scipy's    *)
(* Rbf is a library: the exceptions it raises follow scipy's source, the   *)
(* values it returns are a nondeterministic choice within one unit of the  *)
(* fitted sample range.                                                    *)
(***************************************************************************)
EXTENDS Integers, Sequences, FiniteSets, TLC

\* ------------------------------------------------------------- bounds
\* rows of the uploaded CSV table
MaxRows == 4
\* months 1..MaxMonth stand for the calendar months 1..12
MaxMonth == 2
\* distinct sample locations
MaxPos == 2
\* sample values 1..MaxVal of the animated-map script and the single-map page
MaxVal == 3
\* sample values 1..GridMaxVal of the grid page
GridMaxVal == 2
\* the resolution slider's value
Resolution == 3
\* rows of the tables the helper functions are called with on their own
MaxCoreRows == 2
\* the resolution the helper functions are called with for BoundaryWide
CoreResolution == 4

\* float('nan'): no sample value and no interpolated value equals it.
NaN == 0 - 1
None == [none |-> TRUE]
Some(x) == [some |-> x]

Months == 1..MaxMonth
Years == {2023, 2024}
Values == 1..MaxVal
GridValues == 1..GridMaxVal

\* ---------------------------------------------------------------- state
VARIABLES
    page,             \* the page of the app this session is on
    csv_file,         \* the CSV uploader's file: None or Some(table)
    shapefile_zip,    \* the ZIP uploader's file: None or Some(zip)
    months,           \* the month multiselect's value, in selection order
    selected_month,   \* the month selectbox's value (0: no option, None)
    interpolation_resolution, \* the resolution slider's value
    x_col,            \* the X coordinate column text input: a column's name
    button,           \* whether this run was started by the GIF button
    session_state,    \* st.session_state
    shapefile_loaded, \* the script's flag of this run
    grid,             \* xi, yi, inside_mask of this run, or None
    zi_masked,        \* the field computed last in this run, or None
    fig,              \* the preview figure shown by this run, or None
    frame_paths,      \* the frames saved by this run's GIF loop
    idx,              \* position of the GIF loop in months
    gif,              \* the frames written to the GIF, or None
    subplots,         \* grid page: the subplots added to the figure so far
    vrange,           \* grid page: the locals vmin, vmax of this run, or None
    messages,         \* what st.success/error/info/warning showed in this run
    exception,        \* the exception that ended this run, or "ok"
    pc,               \* "done": the run is over; "gif_loop": inside the loop
    location_name,    \* study-site mapper: the location name text input
    point_name,       \* study-site mapper: the Point Name text input
    point_lat,        \* study-site mapper: the point's Latitude number input
    point_lon,        \* study-site mapper: the point's Longitude number input
    point_color,      \* study-site mapper: the point's Color selectbox
    download_button,  \* study-site mapper: the data of the download button, or None
    plot_columns,     \* grid page: the Columns in Grid slider's value
    num_plots         \* grid page layout: the number of time periods found

\* The widgets and the download button of the study-site mapper.
mapper == <<location_name, point_name, point_lat, point_lon, point_color, download_button>>

\* The inputs of the grid page's layout.
layout == <<plot_columns, num_plots>>

vars == <<page, csv_file, shapefile_zip, months, selected_month, interpolation_resolution,
          x_col, button, session_state,
          shapefile_loaded, grid, zi_masked, fig, frame_paths, idx, gif, subplots,
          vrange, messages, exception, pc, mapper, layout>>

widgets == <<page, csv_file, shapefile_zip, months, selected_month, interpolation_resolution,
             x_col, mapper, layout>>

\* The widgets this model never lets the user of a page change; the
\* study-site mapper is a page of its own.
settings == <<page, csv_file, interpolation_resolution, x_col, mapper, layout>>

\* ------------------------------------------------------------ helpers
Min(S) == CHOOSE a \in S : \A b \in S : a <= b
Max(S) == CHOOSE a \in S : \A b \in S : a >= b
Range(s) == {s[i] : i \in 1..Len(s)}

\* Sequences over S of length at most n.
SeqUpTo(S, n) == UNION {[1..k -> S] : k \in 0..n}

\* A row of the table after lines 292-298 is a record of the date's month and
\* year, the sample location pos (x_col, y_col) and the data column v.

\* ------------------------------------------------------ pandas / numpy
\* A plausible slip: the rows up to that month.
FilterMonthUpTo(df, m) == SelectSeq(df, LAMBDA r : r.month <= m)

\* df[df['month'] == m]: the rows of that month, in table order.
FilterMonth(df, m) == SelectSeq(df, LAMBDA r : r.month = m)

\* Series.min() / Series.max(): NaN cells are skipped; NaN when nothing is left.
SeriesMin(df) ==
    LET vs == {df[i].v : i \in 1..Len(df)} \ {NaN}
    IN  IF vs = {} THEN NaN ELSE Min(vs)

SeriesMax(df) ==
    LET vs == {df[i].v : i \in 1..Len(df)} \ {NaN}
    IN  IF vs = {} THEN NaN ELSE Max(vs)

\* np.linspace(a, b, n), every value multiplied by Scale(n).
Scale(n) == IF n > 1 THEN n - 1 ELSE 1

\* A plausible slip: the values start one step after a.
LinSpaceShifted(a, b, n) == [k \in 1..n |-> a * Scale(n) + k * (b - a)]

LinSpace(a, b, n) == [k \in 1..n |-> a * Scale(n) + (k - 1) * (b - a)]

\* The cells of an n x n array, and their order under ravel() (row-major).
Cells(n) == (1..n) \X (1..n)

Ravel(n) == [k \in 1..(n * n) |-> <<((k - 1) \div n) + 1, ((k - 1) % n) + 1>>]

\* The columns of the CSV that hold a number: "x" and "y" (the location pos of
\* the row on both axes) and the data column "AQI".
Column(r, name) == IF name = "AQI" THEN r.v ELSE r.pos

\* ------------------------------------------------------------ geometry
\* A boundary GeoDataFrame is a sequence of features; a feature is an
\* axis-aligned rectangle.
Rect(x0, y0, x1, y1) == [minx |-> x0, miny |-> y0, maxx |-> x1, maxy |-> y1]

\* gdf.total_bounds: the bounding box of all features.
total_bounds(gdf) ==
    Rect(Min({gdf[i].minx : i \in 1..Len(gdf)}), Min({gdf[i].miny : i \in 1..Len(gdf)}),
         Max({gdf[i].maxx : i \in 1..Len(gdf)}), Max({gdf[i].maxy : i \in 1..Len(gdf)}))

\* shapely polygon.contains(Point(x, y)) for coordinates scaled by s: the
\* point lies in the polygon's interior; a point on the boundary is not
\* contained.
contains(polygon, x, y, s) ==
    /\ polygon.minx * s < x
    /\ x < polygon.maxx * s
    /\ polygon.miny * s < y
    /\ y < polygon.maxy * s

\* A plausible slip: the x axis spans the samples of the uploaded table, read
\* from module-level state, instead of the boundary.
create_interpolation_grid_samples(gdf_boundary, resolution) ==
    LET bounds == total_bounds(gdf_boundary)
        sx == {Column(csv_file.some[i], x_col) : i \in 1..Len(csv_file.some)}
        x0 == IF sx = {} THEN bounds.minx ELSE Min(sx)
        x1 == IF sx = {} THEN bounds.maxx ELSE Max(sx)
        xs == LinSpace(x0, x1, resolution)
        ys == LinSpace(bounds.miny, bounds.maxy, resolution)
        polygon == gdf_boundary[1]
    IN  [n |-> resolution,
         xi |-> [c \in Cells(resolution) |-> xs[c[2]]],
         yi |-> [c \in Cells(resolution) |-> ys[c[1]]],
         inside_mask |-> [c \in Cells(resolution) |->
                             contains(polygon, xs[c[2]], ys[c[1]], Scale(resolution))]]

create_interpolation_grid(gdf_boundary, resolution) ==
    LET bounds == total_bounds(gdf_boundary)
        xs == LinSpace(bounds.minx, bounds.maxx, resolution)
        ys == LinSpace(bounds.miny, bounds.maxy, resolution)
        polygon == gdf_boundary[1]
    IN  [n |-> resolution,
         xi |-> [c \in Cells(resolution) |-> xs[c[2]]],
         yi |-> [c \in Cells(resolution) |-> ys[c[1]]],
         inside_mask |-> [c \in Cells(resolution) |->
                             contains(polygon, xs[c[2]], ys[c[1]], Scale(resolution))]]

\* xi[inside_mask]: the selected cells in ravel order.
InsideCells(xy_mask) == SelectSeq(Ravel(xy_mask.n), LAMBDA c : xy_mask.inside_mask[c])

\* (xi[inside_mask], yi[inside_mask]): the coordinates of the selected cells,
\* in ravel order; these are the points the fitted model is evaluated at.
EvaluatedAt(xy_mask) ==
    [k \in 1..Len(InsideCells(xy_mask)) |->
        <<xy_mask.xi[InsideCells(xy_mask)[k]], xy_mask.yi[InsideCells(xy_mask)[k]]>>]

\* --------------------------------------------------------- scipy.Rbf
\* (row[x_col], row[y_col]): x_col is the module-level value of the text
\* input; y_col is left at "y".
Coord(r) == <<Column(r, x_col), Column(r, "y")>>

\* The arguments of Rbf(points_df[x_col], points_df[y_col], points_df[data_column]).
RbfInput(points_df) ==
    [i \in 1..Len(points_df) |-> <<Coord(points_df[i])[1], Coord(points_df[i])[2], points_df[i].v>>]

\* What Rbf(x, y, d, function=, smooth=) can do for these samples:
\*   no sample: the bounding box of nothing, ValueError;
\*   all samples at one location (a single sample included): the default
\*     epsilon divides by the number of non-zero bounding-box edges, 0:
\*     ZeroDivisionError;
\*   two samples at one location among others: the system is singular
\*     when smooth = 0 (LinAlgError) and solvable otherwise.
\* A plausible slip: epsilon is passed to Rbf, so that samples at one location
\* are fitted as well.
RbfOutcomesWithEpsilon(points_df) ==
    IF Len(points_df) = 0 THEN {"ValueError"}
    ELSE IF Cardinality({Coord(points_df[i]) : i \in 1..Len(points_df)}) < Len(points_df)
    THEN {"ok", "LinAlgError"}
    ELSE {"ok"}

RbfOutcomes(points_df) ==
    LET ps == {Coord(points_df[i]) : i \in 1..Len(points_df)}
    IN  IF Len(points_df) = 0 THEN {"ValueError"}
        ELSE IF Cardinality(ps) = 1 THEN {"ZeroDivisionError"}
        ELSE IF Cardinality(ps) < Len(points_df) THEN {"ok", "LinAlgError"}
        ELSE {"ok"}

\* The values rbf(xi_inside, yi_inside) can return, one per evaluated point.
RbfValues(points_df, pts) ==
    LET lo == SeriesMin(points_df)
        hi == SeriesMax(points_df)
    IN  IF lo = NaN THEN [1..Len(pts) -> {NaN}]
        ELSE [1..Len(pts) -> (lo - 1)..(hi + 1)]

\* The position of cell c in the sequence of inside cells.
IndexOf(seq, c) == CHOOSE k \in 1..Len(seq) : seq[k] = c

\* A plausible slip: the field starts from zeros and is returned unmasked.
perform_interpolation_zeros(points_df, xy_mask, outcome, zi_rbf) ==
    IF outcome # "ok" THEN [exc |-> outcome]
    ELSE LET inside == InsideCells(xy_mask)
             zi_full == [c \in Cells(xy_mask.n) |->
                            IF xy_mask.inside_mask[c] THEN zi_rbf[IndexOf(inside, c)] ELSE 0]
         IN  [exc |-> "ok",
              fit |-> points_df,
              cols |-> x_col,
              xyd |-> RbfInput(points_df),
              at |-> EvaluatedAt(xy_mask),
              vals |-> zi_rbf,
              data |-> zi_full,
              mask |-> [c \in Cells(xy_mask.n) |-> FALSE]]

\* A plausible slip: values below the samples' minimum are masked as well.
perform_interpolation_valuemask(points_df, xy_mask, outcome, zi_rbf) ==
    IF outcome # "ok" THEN [exc |-> outcome]
    ELSE LET inside == InsideCells(xy_mask)
             zi_full == [c \in Cells(xy_mask.n) |->
                            IF xy_mask.inside_mask[c] THEN zi_rbf[IndexOf(inside, c)] ELSE NaN]
         IN  [exc |-> "ok",
              fit |-> points_df,
              cols |-> x_col,
              xyd |-> RbfInput(points_df),
              at |-> EvaluatedAt(xy_mask),
              vals |-> zi_rbf,
              data |-> zi_full,
              mask |-> [c \in Cells(xy_mask.n) |->
                           ~xy_mask.inside_mask[c] \/ zi_full[c] < SeriesMin(points_df)]]

\* A plausible slip: the samples are taken from the uploaded table by the
\* selected month (module-level state) instead of from the argument.
perform_interpolation_selected(points_df, xy_mask, outcome, zi_rbf) ==
    IF outcome # "ok" THEN [exc |-> outcome]
    ELSE LET inside == InsideCells(xy_mask)
             zi_full == [c \in Cells(xy_mask.n) |->
                            IF xy_mask.inside_mask[c] THEN zi_rbf[IndexOf(inside, c)] ELSE NaN]
         IN  [exc |-> "ok",
              fit |-> points_df,
              cols |-> x_col,
              xyd |-> RbfInput(FilterMonth(csv_file.some, selected_month)),
              at |-> EvaluatedAt(xy_mask),
              vals |-> zi_rbf,
              data |-> zi_full,
              mask |-> [c \in Cells(xy_mask.n) |-> ~xy_mask.inside_mask[c]]]

\* A plausible slip: the evaluated values are written back in reverse order.
perform_interpolation_reversed(points_df, xy_mask, outcome, zi_rbf) ==
    IF outcome # "ok" THEN [exc |-> outcome]
    ELSE LET inside == InsideCells(xy_mask)
             zi_full == [c \in Cells(xy_mask.n) |->
                            IF xy_mask.inside_mask[c]
                            THEN zi_rbf[Len(inside) + 1 - IndexOf(inside, c)] ELSE NaN]
         IN  [exc |-> "ok",
              fit |-> points_df,
              cols |-> x_col,
              xyd |-> RbfInput(points_df),
              at |-> EvaluatedAt(xy_mask),
              vals |-> zi_rbf,
              data |-> zi_full,
              mask |-> [c \in Cells(xy_mask.n) |-> ~xy_mask.inside_mask[c]]]

\* perform_interpolation; outcome and zi_rbf are what Rbf did.  The field
\* remembers the samples it was called with (fit), the module-level x_col it
\* read (cols), what it handed to Rbf (xyd), the points the model was
\* evaluated at (at) and the values written back (vals).
perform_interpolation(points_df, xy_mask, outcome, zi_rbf) ==
    IF outcome # "ok" THEN [exc |-> outcome]
    ELSE LET inside == InsideCells(xy_mask)
             zi_full == [c \in Cells(xy_mask.n) |->
                            IF xy_mask.inside_mask[c] THEN zi_rbf[IndexOf(inside, c)] ELSE NaN]
         IN  [exc |-> "ok",
              fit |-> points_df,
              cols |-> x_col,
              xyd |-> RbfInput(points_df),
              at |-> EvaluatedAt(xy_mask),
              vals |-> zi_rbf,
              data |-> zi_full,
              mask |-> [c \in Cells(xy_mask.n) |-> ~xy_mask.inside_mask[c]]]

\* ------------------------------------------------------------ uploads
\* The boundary shapefile of the model: two features, the first one the
\* polygon that create_interpolation_grid masks with.
BoundaryA == <<Rect(0, 0, 4, 4), Rect(4, 4, 6, 6)>>

\* An uploaded ZIP: without a .shp member, with one that cannot be read, or
\* with a readable one.
ZipFiles ==
    {[kind |-> "no_shp", gdf |-> <<>>], [kind |-> "unreadable", gdf |-> <<>>],
     [kind |-> "shapefile", gdf |-> BoundaryA]}

Msg(kind, text) == [kind |-> kind, text |-> text]

extract_and_load_shapefile(zip_file) ==
    IF zip_file = None THEN [gdf |-> None, msgs |-> <<>>]
    ELSE IF zip_file.some.kind = "shapefile"
         THEN [gdf |-> Some(zip_file.some.gdf), msgs |-> <<Msg("success", "loaded shapefile")>>]
    ELSE IF zip_file.some.kind = "unreadable"
         THEN [gdf |-> None,
               msgs |-> <<Msg("error", "Error reading shapefile"), Msg("info", "Files in ZIP")>>]
    ELSE [gdf |-> None,
          msgs |-> <<Msg("error", "No .shp file found"), Msg("info", "Files in ZIP")>>]

\* df.apply(..., axis=1) and the assignment of its result to df["geometry"]:
\* on a table without rows the result is not a column of points, and
\* whether the assignment is accepted depends on the pandas at hand.
GeometryOutcomes(df) == IF Len(df) = 0 THEN {"ok", "ValueError"} ELSE {"ok"}

\* ------------------------------------------------------------ plotting
\* create_plot: levels = np.linspace(vmin, vmax, 20) and contourf(levels=,
\* vmin=, vmax=).  contourf raises TypeError for an array smaller than 2 x 2
\* and ValueError unless the levels increase.
\* The figure records what was drawn with which colour range.
create_plot(gdf_boundary, gdf_points, xy_mask, zi, title_text, vmin, vmax) ==
    IF xy_mask.n < 2 THEN [exc |-> "TypeError"]
    ELSE IF vmin = NaN \/ vmax = NaN \/ ~(vmin < vmax) THEN [exc |-> "ValueError"]
    ELSE [exc |-> "ok", title |-> title_text, vmin |-> vmin, vmax |-> vmax,
          points |-> gdf_points, mask |-> zi.mask]

\* Lines 48-58.
InitialSessionState ==
    [gdf_boundary |-> None, gdf_points |-> None, global_vmin |-> None, global_vmax |-> None]

\* A plausible slip: the range of the first row's month alone.
GlobalRangeFirstMonth(df) ==
    IF Len(df) = 0 THEN <<NaN, NaN>>
    ELSE <<SeriesMin(FilterMonth(df, df[1].month)), SeriesMax(FilterMonth(df, df[1].month))>>

\* Lines 307-308.
GlobalRange(df) == <<SeriesMin(df), SeriesMax(df)>>

\* A plausible slip: after a failed load the run goes on with the boundary
\* that is still stored.
ProcessUploadsStored(csv, zip, ss, geometry) ==
    IF csv = None \/ zip = None
    THEN [exc |-> "ok", ss |-> ss, loaded |-> FALSE, msgs |-> <<>>]
    ELSE IF geometry # "ok"
    THEN [exc |-> geometry, ss |-> ss, loaded |-> FALSE, msgs |-> <<>>]
    ELSE LET df == csv.some
             shp == extract_and_load_shapefile(zip)
         IN  IF shp.gdf # None
             THEN [exc |-> "ok",
                   ss |-> [gdf_boundary |-> shp.gdf, gdf_points |-> Some(df),
                           global_vmin |-> Some(GlobalRange(df)[1]),
                           global_vmax |-> Some(GlobalRange(df)[2])],
                   loaded |-> TRUE, msgs |-> shp.msgs]
             ELSE [exc |-> "ok", ss |-> ss, loaded |-> ss.gdf_boundary # None,
                   msgs |-> shp.msgs]

\* Lines 284-309: read the table, load the shapefile, fill the session state.
ProcessUploads(csv, zip, ss, geometry) ==
    IF csv = None \/ zip = None
    THEN [exc |-> "ok", ss |-> ss, loaded |-> FALSE, msgs |-> <<>>]
    ELSE IF geometry # "ok"
    THEN [exc |-> geometry, ss |-> ss, loaded |-> FALSE, msgs |-> <<>>]
    ELSE LET df == csv.some
             shp == extract_and_load_shapefile(zip)
         IN  IF shp.gdf # None
             THEN [exc |-> "ok",
                   ss |-> [gdf_boundary |-> shp.gdf, gdf_points |-> Some(df),
                           global_vmin |-> Some(GlobalRange(df)[1]),
                           global_vmax |-> Some(GlobalRange(df)[2])],
                   loaded |-> TRUE, msgs |-> shp.msgs]
             ELSE [exc |-> "ok", ss |-> ss, loaded |-> FALSE, msgs |-> shp.msgs]

\* The end of a run: what it leaves behind.
EndRun(ss, loaded, g, zi, f, frames, k, out, msgs, exc, at) ==
    /\ session_state' = ss
    /\ shapefile_loaded' = loaded
    /\ grid' = g
    /\ zi_masked' = zi
    /\ fig' = f
    /\ frame_paths' = frames
    /\ idx' = k
    /\ gif' = out
    /\ messages' = msgs
    /\ exception' = exc
    /\ pc' = at
    /\ UNCHANGED <<subplots, vrange>>

\* Lines 371-372 and 350: the samples of one month of the stored table.
month_data_of(ss, month) == FilterMonth(ss.gdf_points.some, month)

\* A plausible slip: the figure drawn with the range of its own samples.
month_fig_local(ss, month_data, g, zi, month) ==
    create_plot(ss.gdf_boundary.some, month_data, g, zi, month,
                SeriesMin(month_data), SeriesMax(month_data))

\* Lines 341-344 and 382-385: the figure of one month, drawn with the range
\* kept in the session state.
month_fig(ss, month_data, g, zi, month) ==
    create_plot(ss.gdf_boundary.some, month_data, g, zi, month,
                ss.global_vmin.some, ss.global_vmax.some)

\* A plausible slip: when the selected month has no samples the preview, and
\* with it the GIF button, falls back to the samples of all months.
VisualizeAnyMonth(ss, msgs, sel, pressed) ==
    \E g \in {create_interpolation_grid(ss.gdf_boundary.some, interpolation_resolution)} :
    \E month_data \in {IF Len(month_data_of(ss, sel)) = 0 THEN ss.gdf_points.some
                        ELSE month_data_of(ss, sel)} :
        IF Len(month_data) = 0
        THEN EndRun(ss, TRUE, g, None, None, <<>>, 0, None,
                    Append(msgs, Msg("warning", "No data available for the selected month")),
                    "ok", "done")
        ELSE \E outcome \in RbfOutcomes(month_data) :
             IF outcome # "ok"
             THEN EndRun(ss, TRUE, g, None, None, <<>>, 0, None, msgs, outcome, "done")
             ELSE \E zi_rbf \in RbfValues(month_data, InsideCells(g)) :
                  \E zi \in {perform_interpolation(month_data, g, outcome, zi_rbf)} :
                  \E f \in {month_fig(ss, month_data, g, zi, sel)} :
                     IF f.exc # "ok"
                     THEN EndRun(ss, TRUE, g, zi, None, <<>>, 0, None, msgs, f.exc, "done")
                     ELSE IF pressed
                     THEN EndRun(ss, TRUE, g, zi, f, <<>>, 1, None, msgs, "ok", "gif_loop")
                     ELSE EndRun(ss, TRUE, g, zi, f, <<>>, 0, None, msgs, "ok", "done")

\* Lines 311-421 up to the GIF loop: grid, preview of the selected month and,
\* when the button was pressed, entry into the loop.
Visualize(ss, msgs, sel, pressed) ==
    \E g \in {create_interpolation_grid(ss.gdf_boundary.some, interpolation_resolution)} :
    \E month_data \in {month_data_of(ss, sel)} :
        IF Len(month_data) = 0
        THEN EndRun(ss, TRUE, g, None, None, <<>>, 0, None,
                    Append(msgs, Msg("warning", "No data available for the selected month")),
                    "ok", "done")
        ELSE \E outcome \in RbfOutcomes(month_data) :
             IF outcome # "ok"
             THEN EndRun(ss, TRUE, g, None, None, <<>>, 0, None, msgs, outcome, "done")
             ELSE \E zi_rbf \in RbfValues(month_data, InsideCells(g)) :
                  \E zi \in {perform_interpolation(month_data, g, outcome, zi_rbf)} :
                  \E f \in {month_fig(ss, month_data, g, zi, sel)} :
                     IF f.exc # "ok"
                     THEN EndRun(ss, TRUE, g, zi, None, <<>>, 0, None, msgs, f.exc, "done")
                     ELSE IF pressed
                     THEN EndRun(ss, TRUE, g, zi, f, <<>>, 1, None, msgs, "ok", "gif_loop")
                     ELSE EndRun(ss, TRUE, g, zi, f, <<>>, 0, None, msgs, "ok", "done")

\* One execution of the script, from its first line to its end or to the
\* start of the GIF loop.
Rerun(csv, zip, mths, sel, pressed) ==
    /\ button' = pressed
    /\ \E geometry \in (IF csv = None \/ zip = None THEN {"ok"} ELSE GeometryOutcomes(csv.some)) :
       \E up \in {ProcessUploads(csv, zip, session_state, geometry)} :
          IF up.exc # "ok"
          THEN EndRun(up.ss, FALSE, None, None, None, <<>>, 0, None, up.msgs, up.exc, "done")
          ELSE IF up.loaded /\ up.ss.gdf_boundary # None /\ up.ss.gdf_points # None
          THEN Visualize(up.ss, up.msgs, sel, pressed)
          ELSE EndRun(up.ss, FALSE, None, None, None, <<>>, 0, None,
                      Append(up.msgs, Msg("info", "Please upload CSV file and Shapefile ZIP")),
                      "ok", "done")

\* A plausible slip: an iteration stores the range of its own month as the
\* shared range.
GifFrameRescaling ==
    /\ page = "animator"
    /\ pc = "gif_loop"
    /\ idx <= Len(months)
    /\ \E month \in {months[idx]} :
       \E month_data \in {month_data_of(session_state, month)} :
          IF Len(month_data) = 0
          THEN /\ idx' = idx + 1
               /\ UNCHANGED <<zi_masked, frame_paths, exception, pc>>
          ELSE \E outcome \in RbfOutcomes(month_data) :
               IF outcome # "ok"
               THEN /\ exception' = outcome
                    /\ pc' = "done"
                    /\ UNCHANGED <<zi_masked, frame_paths, idx>>
               ELSE \E zi_rbf \in RbfValues(month_data, InsideCells(grid)) :
                    \E zi \in {perform_interpolation(month_data, grid, outcome, zi_rbf)} :
                    \E f \in {month_fig(session_state, month_data, grid, zi, month)} :
                       IF f.exc # "ok"
                       THEN /\ exception' = f.exc
                            /\ pc' = "done"
                            /\ zi_masked' = zi
                            /\ UNCHANGED <<frame_paths, idx>>
                       ELSE /\ zi_masked' = zi
                            /\ frame_paths' = Append(frame_paths, [path |-> month, frame |-> f])
                            /\ idx' = idx + 1
                            /\ UNCHANGED <<exception, pc>>
    /\ session_state' =
          [session_state EXCEPT
              !.global_vmin = Some(SeriesMin(month_data_of(session_state, months[idx]))),
              !.global_vmax = Some(SeriesMax(month_data_of(session_state, months[idx])))]
    /\ UNCHANGED <<widgets, button, shapefile_loaded, grid, fig, gif, messages,
                   subplots, vrange>>

\* Lines 371-390: one iteration of the loop over the selected months.
GifFrame ==
    /\ page = "animator"
    /\ pc = "gif_loop"
    /\ idx <= Len(months)
    /\ \E month \in {months[idx]} :
       \E month_data \in {month_data_of(session_state, month)} :
          IF Len(month_data) = 0
          THEN /\ idx' = idx + 1
               /\ UNCHANGED <<zi_masked, frame_paths, exception, pc>>
          ELSE \E outcome \in RbfOutcomes(month_data) :
               IF outcome # "ok"
               THEN /\ exception' = outcome
                    /\ pc' = "done"
                    /\ UNCHANGED <<zi_masked, frame_paths, idx>>
               ELSE \E zi_rbf \in RbfValues(month_data, InsideCells(grid)) :
                    \E zi \in {perform_interpolation(month_data, grid, outcome, zi_rbf)} :
                    \E f \in {month_fig(session_state, month_data, grid, zi, month)} :
                       IF f.exc # "ok"
                       THEN /\ exception' = f.exc
                            /\ pc' = "done"
                            /\ zi_masked' = zi
                            /\ UNCHANGED <<frame_paths, idx>>
                       ELSE /\ zi_masked' = zi
                            /\ frame_paths' = Append(frame_paths, [path |-> month, frame |-> f])
                            /\ idx' = idx + 1
                            /\ UNCHANGED <<exception, pc>>
    /\ UNCHANGED <<widgets, button, session_state, shapefile_loaded, grid, fig, gif, messages,
                   subplots, vrange>>

\* A plausible slip: the first frame is left out of the GIF.
create_gif_animation_tail(paths) == [k \in 1..(Len(paths) - 1) |-> paths[k + 1].frame]

\* create_gif_animation: every frame path is read and appended, in order.
create_gif_animation(paths) == [k \in 1..Len(paths) |-> paths[k].frame]

\* Lines 392-419: after the loop the GIF is written and shown.
GifFinish ==
    /\ page = "animator"
    /\ pc = "gif_loop"
    /\ idx > Len(months)
    /\ gif' = Some(create_gif_animation(frame_paths))
    /\ messages' = messages \o <<Msg("info", "Creating GIF"), Msg("success", "GIF animation saved")>>
    /\ pc' = "done"
    /\ UNCHANGED <<widgets, button, session_state, shapefile_loaded, grid, zi_masked, fig,
                   frame_paths, idx, exception, subplots, vrange>>

\* ------------------------------------------------------ user interaction
\* The ZIP uploader gets a file.
UploadShapefile ==
    /\ page = "animator"
    /\ pc = "done"
    /\ \E z \in ZipFiles :
          /\ shapefile_zip' = Some(z)
          /\ UNCHANGED <<settings, months, selected_month>>
          /\ Rerun(csv_file, Some(z), months, selected_month, FALSE)

\* The selectbox over the options `months`: it keeps its value while that is
\* still an option and falls back to the first option otherwise.
SelectboxValue(options, value) ==
    IF value \in Range(options) THEN value
    ELSE IF Len(options) = 0 THEN 0
    ELSE options[1]

\* The month multiselect: a picked month is appended to the selection, a
\* removed one leaves it; the value keeps the order of picking.
ToggleMonth ==
    /\ page = "animator"
    /\ pc = "done"
    /\ \E m \in Months :
          LET mths == IF m \in Range(months)
                      THEN SelectSeq(months, LAMBDA x : x # m)
                      ELSE Append(months, m)
              sel == SelectboxValue(mths, selected_month)
          IN  /\ months' = mths
              /\ selected_month' = sel
              /\ UNCHANGED <<settings, shapefile_zip>>
              /\ Rerun(csv_file, shapefile_zip, mths, sel, FALSE)

\* Another month is chosen in the selectbox.
SelectMonth ==
    /\ page = "animator"
    /\ pc = "done"
    /\ \E m \in Range(months) :
          /\ m # selected_month
          /\ selected_month' = m
          /\ UNCHANGED <<settings, shapefile_zip, months>>
          /\ Rerun(csv_file, shapefile_zip, months, m, FALSE)

\* The GIF button exists only in a run that showed the preview (line 364).
PressGif ==
    /\ page = "animator"
    /\ pc = "done"
    /\ fig # None
    /\ UNCHANGED widgets
    /\ Rerun(csv_file, shapefile_zip, months, selected_month, TRUE)

\* A table whose every row is a sample at a location of its own.
WithPos(t) ==
    [i \in 1..Len(t) |-> [month |-> t[i].month, year |-> t[i].year, pos |-> i, v |-> t[i].v]]

\* The tables uploaded to the animated-map script: samples of one year.
Tables == {WithPos(t) : t \in SeqUpTo([month : Months, year : {2023}, v : Values], MaxRows)}

\* The widgets of the study-site mapper before that page is opened: the text
\* input's default (line 72), an empty name, the number inputs at their
\* minimum, the first colour.
MapperUntouched ==
    /\ location_name = "Chennai"
    /\ point_name = ""
    /\ point_lat = 0 - 90
    /\ point_lon = 0 - 180
    /\ point_color = "Red"
    /\ download_button = None

\* The layout inputs of the grid page before a layout is computed: the
\* slider's default (line 93), no time period counted.
LayoutUntouched ==
    /\ plot_columns = 6
    /\ num_plots = 0

\* The first run: nothing uploaded but, possibly, the CSV file; every month
\* selected (lines 116-121).
FirstRun ==
    /\ shapefile_zip = None
    /\ interpolation_resolution = Resolution
    /\ x_col = "x"
    /\ months = [m \in Months |-> m]
    /\ selected_month = 1
    /\ button = FALSE
    /\ shapefile_loaded = FALSE
    /\ grid = None
    /\ zi_masked = None
    /\ fig = None
    /\ frame_paths = <<>>
    /\ idx = 0
    /\ gif = None
    /\ messages = <<Msg("info", "Please upload CSV file and Shapefile ZIP")>>
    /\ exception = "ok"
    /\ pc = "done"
    /\ subplots = <<>>
    /\ vrange = None
    /\ MapperUntouched
    /\ LayoutUntouched

Init ==
    /\ page = "animator"
    /\ csv_file \in {None} \cup {Some(t) : t \in Tables}
    /\ session_state = InitialSessionState
    /\ FirstRun

Next == UploadShapefile \/ ToggleMonth \/ SelectMonth \/ PressGif \/ GifFrame \/ GifFinish

Spec == Init /\ [][Next]_vars

\* ================================================ the multi-map grid page
\* The order of (year, month) group keys.
KeyLess(a, b) == a[1] < b[1] \/ (a[1] = b[1] /\ a[2] < b[2])

\* The keys of S in ascending order.
SortKeys(S) ==
    LET Place(k) == Cardinality({j \in S : KeyLess(j, k)}) + 1
    IN  [i \in 1..Cardinality(S) |-> CHOOSE k \in S : Place(k) = i]

\* A plausible slip: groupby(..., sort=False), the groups in the order in
\* which their keys first appear in the table.
groupby_unsorted(df) ==
    LET first == SelectSeq([i \in 1..Len(df) |-> i],
                           LAMBDA i : \A j \in 1..(i - 1) :
                                         <<df[j].year, df[j].month>> # <<df[i].year, df[i].month>>)
    IN  [i \in 1..Len(first) |->
            [key |-> <<df[first[i]].year, df[first[i]].month>>,
             df |-> SelectSeq(df, LAMBDA r : r.year = df[first[i]].year
                                             /\ r.month = df[first[i]].month)]]

\* df.groupby(['year', 'month']): one group per key present in the table, the
\* groups in ascending key order, a group's rows in table order.
groupby(df) ==
    LET keys == SortKeys({<<df[i].year, df[i].month>> : i \in 1..Len(df)})
    IN  [i \in 1..Len(keys) |->
            [key |-> keys[i],
             df |-> SelectSeq(df, LAMBDA r : r.year = keys[i][1] /\ r.month = keys[i][2])]]

\* Lines 270-273: the rows of one year and month.
FilterYearMonth(df, year, month) == SelectSeq(df, LAMBDA r : r.month = month /\ r.year = year)

\* The colour range contourf takes when it is given neither vmin nor vmax:
\* that of the unmasked data it draws.
Autoscale(zi) ==
    LET vs == {zi.data[c] : c \in {d \in DOMAIN zi.data : ~zi.mask[d]}}
    IN  IF vs = {} THEN <<NaN, NaN>> ELSE <<Min(vs), Max(vs)>>

\* plot_map: contourf(xi, yi, zi_masked, levels=contour_levels, cmap=, alpha=).
plot_map(ax, gdf_boundary, gdf_points, g, zi, title_text) ==
    [ax |-> ax, title |-> title_text, clim |-> Autoscale(zi), points |-> gdf_points,
     mask |-> zi.mask]

\* Lines 59-63 of the grid page.
GridInitialSessionState == [gdf_boundary |-> None, gdf_points |-> None]

\* Lines 223-238 of the grid page: as ProcessUploads, without a stored range.
GridProcessUploads(csv, zip, ss, geometry) ==
    IF csv = None \/ zip = None
    THEN [exc |-> "ok", ss |-> ss, loaded |-> FALSE, msgs |-> <<>>]
    ELSE IF geometry # "ok"
    THEN [exc |-> geometry, ss |-> ss, loaded |-> FALSE, msgs |-> <<>>]
    ELSE LET shp == extract_and_load_shapefile(zip)
         IN  IF shp.gdf # None
             THEN [exc |-> "ok",
                   ss |-> [ss EXCEPT !.gdf_boundary = shp.gdf, !.gdf_points = Some(csv.some)],
                   loaded |-> TRUE, msgs |-> IF Len(shp.msgs) > 0 THEN <<shp.msgs[1]>> ELSE <<>>]
             ELSE [exc |-> "ok", ss |-> ss, loaded |-> FALSE,
                   msgs |-> IF Len(shp.msgs) > 0 THEN <<shp.msgs[1]>> ELSE <<>>]

\* The end of a run of the grid page.
GridEndRun(ss, loaded, g, subs, rng, f, k, msgs, exc, at) ==
    /\ session_state' = ss
    /\ shapefile_loaded' = loaded
    /\ grid' = g
    /\ subplots' = subs
    /\ vrange' = rng
    /\ fig' = f
    /\ idx' = k
    /\ messages' = msgs
    /\ exception' = exc
    /\ pc' = at
    /\ zi_masked' = None
    /\ UNCHANGED <<frame_paths, gif>>

\* One execution of the grid page, to its end or to the start of the loop over
\* the groups (lines 220-264).  GridSpec rejects a layout without rows.
GridRerun(csv, zip, pressed) ==
    /\ button' = pressed
    /\ \E geometry \in (IF csv = None \/ zip = None THEN {"ok"} ELSE GeometryOutcomes(csv.some)) :
       \E up \in {GridProcessUploads(csv, zip, session_state, geometry)} :
          IF up.exc # "ok"
          THEN GridEndRun(up.ss, FALSE, None, <<>>, None, None, 0, up.msgs, up.exc, "done")
          ELSE IF up.loaded /\ up.ss.gdf_boundary # None
          THEN \E g \in {create_interpolation_grid(up.ss.gdf_boundary.some, interpolation_resolution)} :
               \E msgs \in {Append(up.msgs, Msg("info", "Found time periods"))} :
                  IF ~pressed
                  THEN GridEndRun(up.ss, TRUE, g, <<>>, None, None, 0, msgs, "ok", "done")
                  ELSE IF Len(groupby(up.ss.gdf_points.some)) = 0
                  THEN GridEndRun(up.ss, TRUE, g, <<>>, None, None, 0, msgs, "ValueError", "done")
                  ELSE GridEndRun(up.ss, TRUE, g, <<>>,
                                  Some(<<SeriesMin(up.ss.gdf_points.some),
                                         SeriesMax(up.ss.gdf_points.some)>>),
                                  None, 1, msgs, "ok", "grid_loop")
          ELSE GridEndRun(up.ss, FALSE, None, <<>>, None, None, 0,
                          Append(up.msgs, Msg("info", "Please upload CSV file and Shapefile ZIP")),
                          "ok", "done")

\* Lines 266-285: one iteration of the loop over the groups.
GridSubplot ==
    /\ page = "grid"
    /\ pc = "grid_loop"
    /\ idx <= Len(groupby(session_state.gdf_points.some))
    /\ \E group \in {groupby(session_state.gdf_points.some)[idx]} :
       \E month_gdf \in {FilterYearMonth(session_state.gdf_points.some,
                                         group.key[1], group.key[2])} :
       \E outcome \in RbfOutcomes(group.df) :
          IF outcome # "ok"
          THEN /\ exception' = outcome
               /\ pc' = "done"
               /\ UNCHANGED <<zi_masked, subplots, idx>>
          ELSE \E zi_rbf \in RbfValues(group.df, InsideCells(grid)) :
               \E zi \in {perform_interpolation(group.df, grid, outcome, zi_rbf)} :
                  /\ zi_masked' = zi
                  /\ subplots' = Append(subplots,
                                        [fit |-> group.df,
                                         plot |-> plot_map(idx, session_state.gdf_boundary.some,
                                                           month_gdf, grid, zi, group.key)])
                  /\ idx' = idx + 1
                  /\ UNCHANGED <<exception, pc>>
    /\ UNCHANGED <<widgets, button, session_state, shapefile_loaded, grid, fig, frame_paths,
                   gif, vrange, messages>>

\* Lines 287-307: the figure is shown and offered for download.
GridFinish ==
    /\ page = "grid"
    /\ pc = "grid_loop"
    /\ idx > Len(groupby(session_state.gdf_points.some))
    /\ fig' = [subplots |-> subplots]
    /\ messages' = Append(messages, Msg("success", "Maps generated successfully"))
    /\ pc' = "done"
    /\ UNCHANGED <<widgets, button, session_state, shapefile_loaded, grid, zi_masked,
                   frame_paths, idx, gif, subplots, vrange, exception>>

GridUploadShapefile ==
    /\ page = "grid"
    /\ pc = "done"
    /\ \E z \in ZipFiles :
          /\ shapefile_zip' = Some(z)
          /\ UNCHANGED <<settings, months, selected_month>>
          /\ GridRerun(csv_file, Some(z), FALSE)

\* The button is drawn by a run that loaded the files (line 254).
GridGenerate ==
    /\ page = "grid"
    /\ pc = "done"
    /\ shapefile_loaded
    /\ UNCHANGED widgets
    /\ GridRerun(csv_file, shapefile_zip, TRUE)

\* The tables of the grid page.
GridTables == {WithPos(t) : t \in SeqUpTo([month : Months, year : Years, v : GridValues], MaxRows)}

GridInit ==
    /\ page = "grid"
    /\ csv_file \in {Some(t) : t \in GridTables}
    /\ session_state = GridInitialSessionState
    /\ FirstRun

GridNext == GridUploadShapefile \/ GridGenerate \/ GridSubplot \/ GridFinish

SpecGrid == GridInit /\ [][GridNext]_vars

\* ================================================== the single-map page
\* Lines 57-62 of the single-map page.
SingleInitialSessionState == [gdf_boundary |-> None, gdf_data |-> None, df |-> None]

\* geometry.union_all().contains(Point(x, y)), coordinates scaled by s: the
\* point is interior to the union of the features, that is, each of the four
\* quadrants around it is covered by a feature.
union_contains(gdf, x, y, s) ==
    \A sx \in {-1, 1} : \A sy \in {-1, 1} :
        \E i \in 1..Len(gdf) :
            /\ gdf[i].minx * s <= x /\ x <= gdf[i].maxx * s
            /\ gdf[i].miny * s <= y /\ y <= gdf[i].maxy * s
            /\ IF sx = 1 THEN x < gdf[i].maxx * s ELSE gdf[i].minx * s < x
            /\ IF sy = 1 THEN y < gdf[i].maxy * s ELSE gdf[i].miny * s < y

\* Lines 160-168: the grid and the mask of the single-map page.
single_map_grid(gdf_boundary, resolution) ==
    LET bounds == total_bounds(gdf_boundary)
        xs == LinSpace(bounds.minx, bounds.maxx, resolution)
        ys == LinSpace(bounds.miny, bounds.maxy, resolution)
    IN  [n |-> resolution,
         xi |-> [c \in Cells(resolution) |-> xs[c[2]]],
         yi |-> [c \in Cells(resolution) |-> ys[c[1]]],
         inside_mask |-> [c \in Cells(resolution) |->
                             union_contains(gdf_boundary, xs[c[2]], ys[c[1]],
                                            Scale(resolution))]]

\* np.clip(a, lo, hi) for one value.
clip(a, lo, hi) == IF a < lo THEN lo ELSE IF a > hi THEN hi ELSE a

\* A plausible slip: the evaluated values are written back without clipping.
single_map_field_unclipped(df, g, outcome, zi_rbf) ==
    IF outcome # "ok" THEN [exc |-> outcome]
    ELSE LET inside == InsideCells(g)
             zi_full == [c \in Cells(g.n) |->
                            IF g.inside_mask[c] THEN zi_rbf[IndexOf(inside, c)] ELSE NaN]
         IN  [exc |-> "ok",
              fit |-> df,
              cols |-> x_col,
              xyd |-> RbfInput(df),
              at |-> EvaluatedAt(g),
              vals |-> zi_rbf,
              data |-> zi_full,
              mask |-> [c \in Cells(g.n) |-> ~g.inside_mask[c]]]

\* Lines 170-184: fit, evaluation at the inside cells, clipping to the range
\* of the sample values, the masked field.
single_map_field(df, g, outcome, zi_rbf) ==
    IF outcome # "ok" THEN [exc |-> outcome]
    ELSE LET inside == InsideCells(g)
             data_min == SeriesMin(df)
             data_max == SeriesMax(df)
             clipped == [k \in 1..Len(zi_rbf) |-> clip(zi_rbf[k], data_min, data_max)]
             zi_full == [c \in Cells(g.n) |->
                            IF g.inside_mask[c] THEN clipped[IndexOf(inside, c)] ELSE NaN]
         IN  [exc |-> "ok",
              fit |-> df,
              cols |-> x_col,
              xyd |-> RbfInput(df),
              at |-> EvaluatedAt(g),
              vals |-> clipped,
              data |-> zi_full,
              mask |-> [c \in Cells(g.n) |-> ~g.inside_mask[c]]]

\* Lines 186-191: contourf(levels=contour_levels, vmin=data_min, vmax=data_max).
single_map_plot(df, zi) ==
    [exc |-> "ok", title |-> "Interpolated", vmin |-> SeriesMin(df), vmax |-> SeriesMax(df),
     points |-> df, mask |-> zi.mask]

\* Lines 138-152: the shapefile is loaded first, then the table is completed.
SingleProcessUploads(csv, zip, ss, geometry) ==
    IF csv = None \/ zip = None
    THEN [exc |-> "ok", ss |-> ss, loaded |-> FALSE, msgs |-> <<>>]
    ELSE LET shp == extract_and_load_shapefile(zip)
             msgs == IF Len(shp.msgs) > 0 THEN <<shp.msgs[1]>> ELSE <<>>
         IN  IF shp.gdf = None
             THEN [exc |-> "ok", ss |-> ss, loaded |-> FALSE, msgs |-> msgs]
             ELSE IF geometry # "ok"
             THEN [exc |-> geometry, ss |-> ss, loaded |-> FALSE, msgs |-> msgs]
             ELSE [exc |-> "ok",
                   ss |-> [gdf_boundary |-> shp.gdf, gdf_data |-> Some(csv.some),
                           df |-> Some(csv.some)],
                   loaded |-> TRUE, msgs |-> msgs]

\* The end of a run of the single-map page.
SingleEndRun(ss, loaded, g, zi, f, msgs, exc) ==
    /\ session_state' = ss
    /\ shapefile_loaded' = loaded
    /\ grid' = g
    /\ zi_masked' = zi
    /\ fig' = f
    /\ messages' = msgs
    /\ exception' = exc
    /\ UNCHANGED <<frame_paths, idx, gif, subplots, vrange, pc>>

\* One execution of the single-map page (lines 138-254).
SingleRerun(csv, zip, pressed) ==
    /\ button' = pressed
    /\ \E geometry \in (IF csv = None \/ zip = None THEN {"ok"} ELSE GeometryOutcomes(csv.some)) :
       \E up \in {SingleProcessUploads(csv, zip, session_state, geometry)} :
          IF up.exc # "ok"
          THEN SingleEndRun(up.ss, FALSE, None, None, None, up.msgs, up.exc)
          ELSE IF ~(up.loaded /\ up.ss.gdf_boundary # None)
          THEN SingleEndRun(up.ss, FALSE, None, None, None,
                            Append(up.msgs, Msg("info", "Please upload CSV file and Shapefile ZIP")),
                            "ok")
          ELSE IF ~pressed
          THEN SingleEndRun(up.ss, TRUE, None, None, None, up.msgs, "ok")
          ELSE \E g \in {single_map_grid(up.ss.gdf_boundary.some, interpolation_resolution)} :
               \E outcome \in RbfOutcomes(up.ss.df.some) :
                  IF outcome # "ok"
                  THEN SingleEndRun(up.ss, TRUE, g, None, None, up.msgs, outcome)
                  ELSE \E zi_rbf \in RbfValues(up.ss.df.some, InsideCells(g)) :
                       \E zi \in {single_map_field(up.ss.df.some, g, outcome, zi_rbf)} :
                          SingleEndRun(up.ss, TRUE, g, zi, single_map_plot(up.ss.df.some, zi),
                                       Append(up.msgs, Msg("success", "Map generated")), "ok")

SingleUploadShapefile ==
    /\ page = "single"
    /\ \E z \in ZipFiles :
          /\ shapefile_zip' = Some(z)
          /\ UNCHANGED <<settings, months, selected_month>>
          /\ SingleRerun(csv_file, Some(z), FALSE)

\* The button is drawn by a run that loaded the files (line 158).
SingleGenerate ==
    /\ page = "single"
    /\ shapefile_loaded
    /\ UNCHANGED widgets
    /\ SingleRerun(csv_file, shapefile_zip, TRUE)

\* The tables of the single-map page: the date columns are not read.
SingleTables == SeqUpTo([month : {1}, year : {2023}, pos : 1..MaxPos, v : Values], MaxRows)

SingleInit ==
    /\ page = "single"
    /\ csv_file \in {Some(t) : t \in SingleTables}
    /\ session_state = SingleInitialSessionState
    /\ FirstRun

SingleNext == SingleUploadShapefile \/ SingleGenerate

SpecSingle == SingleInit /\ [][SingleNext]_vars

\* ======================================================= the whole app
\* A session on any one of the pages.
SpecPages == (Init \/ GridInit \/ SingleInit) /\ [][Next \/ GridNext \/ SingleNext]_vars

\* ============================================ the helper functions alone
\* The helper functions called on their own, on every boundary, resolution
\* and table of the bounds and in any order, with the module-level state
\* changing between the calls.  page = "core": the functions of
\* Create_Animated_Maps.py; page = "core_single": the grid block of the
\* single-map page.

\* Boundaries: two features; a square; a rectangle; a polygon of zero area;
\* a square made of two features side by side.
Boundaries ==
    {BoundaryA, <<Rect(0, 0, 4, 4)>>, <<Rect(0, 0, 2, 4)>>, <<Rect(0, 0, 4, 0)>>,
     <<Rect(0, 0, 2, 4), Rect(2, 0, 4, 4)>>}

\* A boundary with two lattice points inside its first feature, and inside
\* the union of its features, at resolution CoreResolution.
BoundaryWide == <<Rect(0, 0, 6, 3), Rect(5, 3, 6, 6)>>

\* The boundaries and resolutions the grid is built for.
CoreGrids == (Boundaries \X (0..Resolution)) \cup {<<BoundaryWide, CoreResolution>>}

\* The names the X coordinate column input gets.
XCols == {"x", "AQI"}

CoreTables == {t \in Tables : Len(t) <= MaxCoreRows}

\* The boundary the functions are called with.
CoreBoundary == shapefile_zip.some.gdf

\* xi, yi, inside_mask = create_interpolation_grid(gdf_boundary, resolution)
CallGrid ==
    /\ page = "core"
    /\ grid' = create_interpolation_grid(CoreBoundary, interpolation_resolution)
    /\ UNCHANGED <<widgets, button, session_state, shapefile_loaded, zi_masked, fig,
                   frame_paths, idx, gif, subplots, vrange, messages, exception, pc>>

\* The grid block of the single-map page.
CallSingleGrid ==
    /\ page = "core_single"
    /\ grid' = single_map_grid(CoreBoundary, interpolation_resolution)
    /\ UNCHANGED <<widgets, button, session_state, shapefile_loaded, zi_masked, fig,
                   frame_paths, idx, gif, subplots, vrange, messages, exception, pc>>

\* zi_masked = perform_interpolation(month_data, xi, yi, inside_mask, ...)
\* for the samples of a month.
CallInterpolation ==
    /\ page = "core"
    /\ grid # None
    /\ \E m \in Months :
       \E points_df \in {FilterMonth(csv_file.some, m)} :
       \E outcome \in RbfOutcomes(points_df) :
          IF outcome # "ok"
          THEN /\ exception' = outcome
               /\ UNCHANGED zi_masked
          ELSE \E zi_rbf \in RbfValues(points_df, InsideCells(grid)) :
                  /\ zi_masked' = perform_interpolation(points_df, grid, outcome, zi_rbf)
                  /\ exception' = "ok"
    /\ UNCHANGED <<widgets, button, session_state, shapefile_loaded, grid, fig,
                   frame_paths, idx, gif, subplots, vrange, messages, pc>>

\* The interpolation and plot blocks of the single-map page, for the whole
\* table.
CallSingleMap ==
    /\ page = "core_single"
    /\ grid # None
    /\ \E df \in {csv_file.some} :
       \E outcome \in RbfOutcomes(df) :
          IF outcome # "ok"
          THEN /\ exception' = outcome
               /\ UNCHANGED <<zi_masked, fig>>
          ELSE \E zi_rbf \in RbfValues(df, InsideCells(grid)) :
               \E zi \in {single_map_field(df, grid, outcome, zi_rbf)} :
                  /\ zi_masked' = zi
                  /\ fig' = single_map_plot(df, zi)
                  /\ exception' = "ok"
    /\ UNCHANGED <<widgets, button, session_state, shapefile_loaded, grid,
                   frame_paths, idx, gif, subplots, vrange, messages, pc>>

\* fig = create_plot(gdf_boundary, month_data, xi, yi, zi_masked, title, vmin, vmax)
\* for the field computed last, with the range of the table.
CallPlot ==
    /\ page = "core"
    /\ zi_masked # None
    /\ \E f \in {create_plot(CoreBoundary, zi_masked.fit, grid, zi_masked,
                             zi_masked.fit[1].month,
                             GlobalRange(csv_file.some)[1], GlobalRange(csv_file.some)[2])} :
          IF f.exc # "ok"
          THEN /\ exception' = f.exc
               /\ UNCHANGED fig
          ELSE /\ fig' = f
               /\ exception' = "ok"
    /\ UNCHANGED <<widgets, button, session_state, shapefile_loaded, grid, zi_masked,
                   frame_paths, idx, gif, subplots, vrange, messages, pc>>

\* Module-level state changes between two calls: another column name in the
\* X coordinate input (line 78), another month in the selectbox.
SetXCol ==
    /\ page = "core"
    /\ \E name \in XCols \ {x_col} : x_col' = name
    /\ UNCHANGED <<page, csv_file, shapefile_zip, months, selected_month,
                   interpolation_resolution, button, session_state, shapefile_loaded, grid,
                   zi_masked, fig, frame_paths, idx, gif, subplots, vrange, messages,
                   exception, pc, mapper, layout>>

CoreSelectMonth ==
    /\ page = "core"
    /\ \E m \in Months \ {selected_month} : selected_month' = m
    /\ UNCHANGED <<page, csv_file, shapefile_zip, months, interpolation_resolution, x_col,
                   button, session_state, shapefile_loaded, grid, zi_masked, fig,
                   frame_paths, idx, gif, subplots, vrange, messages, exception, pc, mapper,
                   layout>>

CoreInit ==
    /\ page \in {"core", "core_single"}
    /\ csv_file \in {Some(t) : t \in CoreTables}
    /\ \E call \in CoreGrids :
          /\ shapefile_zip = Some([kind |-> "shapefile", gdf |-> call[1]])
          /\ interpolation_resolution = call[2]
    /\ x_col = "x"
    /\ months = [m \in Months |-> m]
    /\ selected_month = 1
    /\ button = FALSE
    /\ session_state = InitialSessionState
    /\ shapefile_loaded = FALSE
    /\ grid = None
    /\ zi_masked = None
    /\ fig = None
    /\ frame_paths = <<>>
    /\ idx = 0
    /\ gif = None
    /\ subplots = <<>>
    /\ vrange = None
    /\ messages = <<>>
    /\ exception = "ok"
    /\ pc = "done"
    /\ MapperUntouched
    /\ LayoutUntouched

CoreNext ==
    \/ CallGrid \/ CallSingleGrid \/ CallInterpolation \/ CallSingleMap \/ CallPlot
    \/ SetXCol \/ CoreSelectMonth

SpecCore == CoreInit /\ [][CoreNext]_vars

\* ============================================ the study-site mapper page
\* (src/pages/4_study_site_mapper.py).  Degrees are whole numbers here.  On
\* this page `button` names the button that started the run: "add", "clear"
\* or "none".

\* rows of st.session_state.sample_points
MaxPoints == 2

\* Lines 77-94: the names the lookup knows, with latitude and longitude.
location_presets ==
    [n \in {"Chennai", "Santiago"} |->
        IF n = "Chennai" THEN [lat |-> 13, lon |-> 80, address |-> "Chennai, Tamil Nadu, India"]
        ELSE [lat |-> 0 - 33, lon |-> 0 - 70, address |-> "Santiago, Chile"]]

\* What is typed into the location name input: two presets and a name that is
\* not a preset.
LocationNames == {"Chennai", "Santiago", "Atlantis"}

\* The values of the Add New Sample Point inputs (lines 290-293).
PointNames == {"", "P1"}
Latitudes == {0 - 90, 0, 90}
Longitudes == {0 - 180, 0, 180}
Colors == {"Red", "Blue"}

\* Lines 53-56.
MapperInitialSessionState == [map_html |-> None, sample_points |-> <<>>]

\* Lines 96-101: location_coords of a name, or None.
location_coords_of(name) ==
    IF name \in DOMAIN location_presets THEN Some(location_presets[name]) ELSE None

\* Lines 180-262: the folium map of a location with a marker per sample
\* point, as the HTML it is rendered to.
folium_map(location_coords, sample_points) ==
    [location |-> <<location_coords.lat, location_coords.lon>>,
     popup |-> location_coords.address,
     markers |-> [i \in 1..Len(sample_points) |->
                     [location |-> <<sample_points[i].Latitude, sample_points[i].Longitude>>,
                      tooltip |-> sample_points[i].Name,
                      color |-> sample_points[i].Color]]]

\* pd.concat([sample_points, new_point], ignore_index=True) (line 303).
concat(sample_points, new_point) == Append(sample_points, new_point)

\* One execution of the script from line 53 to st.rerun() or to its end:
\* ss is the session state it starts with, pressed the button that started
\* it.  Python takes an empty string and the number 0 as false (line 296).
MapperScript(ss, name, new_point, pressed) ==
    LET location_coords == location_coords_of(name)
        found == IF location_coords # None
                 THEN <<Msg("success", "Found")>>
                 ELSE <<Msg("warning", "Location not in presets")>>
        ss1 == IF location_coords # None
               THEN [ss EXCEPT !.map_html =
                                   Some(folium_map(location_coords.some, ss.sample_points))]
               ELSE ss
        filled == new_point.Name # "" /\ new_point.Latitude # 0 /\ new_point.Longitude # 0
        listed == IF Len(ss1.sample_points) = 0
                  THEN <<Msg("info", "No sample points added yet")>>
                  ELSE <<>>
    IN  IF pressed = "add" /\ filled
        THEN [ss |-> [ss1 EXCEPT !.sample_points = concat(ss1.sample_points, new_point)],
              rerun |-> TRUE, msgs |-> <<>>, download |-> None]
        ELSE IF pressed = "clear" /\ Len(ss1.sample_points) > 0
        THEN [ss |-> [ss1 EXCEPT !.sample_points = <<>>],
              rerun |-> TRUE, msgs |-> <<>>, download |-> None]
        ELSE [ss |-> ss1, rerun |-> FALSE,
              msgs |-> found
                       \o (IF pressed = "add"
                           THEN <<Msg("error", "Please fill in all fields")>> ELSE <<>>)
                       \o listed,
              download |-> ss1.map_html]

\* A run of the page and, after st.rerun(), the run that follows it.
MapperRerun(name, new_point, pressed) ==
    \E first \in {MapperScript(session_state, name, new_point, pressed)} :
    \E last \in {IF first.rerun THEN MapperScript(first.ss, name, new_point, "none")
                  ELSE first} :
        /\ button' = pressed
        /\ session_state' = last.ss
        /\ messages' = last.msgs
        /\ download_button' = last.download
        /\ UNCHANGED <<page, csv_file, shapefile_zip, months, selected_month,
                       interpolation_resolution, x_col, shapefile_loaded, grid, zi_masked,
                       fig, frame_paths, idx, gif, subplots, vrange, exception, pc, layout>>

\* The row the Add Point button reads from the inputs.
NewPoint ==
    [Name |-> point_name, Latitude |-> point_lat, Longitude |-> point_lon,
     Color |-> point_color]

\* Another name is typed into the location input.
SetLocationName ==
    /\ page = "mapper"
    /\ \E name \in LocationNames \ {location_name} :
          /\ location_name' = name
          /\ UNCHANGED <<point_name, point_lat, point_lon, point_color>>
          /\ MapperRerun(name, NewPoint, "none")

\* The inputs of the new sample point are changed.
SetPointName ==
    /\ page = "mapper"
    /\ \E v \in PointNames \ {point_name} :
          /\ point_name' = v
          /\ UNCHANGED <<location_name, point_lat, point_lon, point_color>>
          /\ MapperRerun(location_name, NewPoint, "none")

SetPointLat ==
    /\ page = "mapper"
    /\ \E v \in Latitudes \ {point_lat} :
          /\ point_lat' = v
          /\ UNCHANGED <<location_name, point_name, point_lon, point_color>>
          /\ MapperRerun(location_name, NewPoint, "none")

SetPointLon ==
    /\ page = "mapper"
    /\ \E v \in Longitudes \ {point_lon} :
          /\ point_lon' = v
          /\ UNCHANGED <<location_name, point_name, point_lat, point_color>>
          /\ MapperRerun(location_name, NewPoint, "none")

SetPointColor ==
    /\ page = "mapper"
    /\ \E v \in Colors \ {point_color} :
          /\ point_color' = v
          /\ UNCHANGED <<location_name, point_name, point_lat, point_lon>>
          /\ MapperRerun(location_name, NewPoint, "none")

\* Lines 295-307: the Add Point button.
AddPoint ==
    /\ page = "mapper"
    /\ Len(session_state.sample_points) < MaxPoints
    /\ UNCHANGED <<location_name, point_name, point_lat, point_lon, point_color>>
    /\ MapperRerun(location_name, NewPoint, "add")

\* Lines 312-322: the Clear All Points button is drawn while the table has rows.
ClearAllPoints ==
    /\ page = "mapper"
    /\ Len(session_state.sample_points) > 0
    /\ UNCHANGED <<location_name, point_name, point_lat, point_lon, point_color>>
    /\ MapperRerun(location_name, NewPoint, "clear")

\* The page after its first run, with every widget at its default.
MapperInit ==
    /\ page = "mapper"
    /\ csv_file = None
    /\ shapefile_zip = None
    /\ months = <<>>
    /\ selected_month = 0
    /\ interpolation_resolution = Resolution
    /\ x_col = "x"
    /\ button = "none"
    /\ shapefile_loaded = FALSE
    /\ grid = None
    /\ zi_masked = None
    /\ fig = None
    /\ frame_paths = <<>>
    /\ idx = 0
    /\ gif = None
    /\ subplots = <<>>
    /\ vrange = None
    /\ exception = "ok"
    /\ pc = "done"
    /\ location_name = "Chennai"
    /\ point_name = ""
    /\ point_lat = 0 - 90
    /\ point_lon = 0 - 180
    /\ point_color = "Red"
    /\ LayoutUntouched
    /\ \E first \in {MapperScript(MapperInitialSessionState, "Chennai",
                                   [Name |-> "", Latitude |-> 0 - 90,
                                    Longitude |-> 0 - 180, Color |-> "Red"], "none")} :
          /\ session_state = first.ss
          /\ messages = first.msgs
          /\ download_button = first.download

MapperNext ==
    \/ SetLocationName \/ SetPointName \/ SetPointLat \/ SetPointLon \/ SetPointColor
    \/ AddPoint \/ ClearAllPoints

SpecMapper == MapperInit /\ [][MapperNext]_vars

\* ========================================== the layout of the grid page
\* Lines 250-285 of src/pages/2_multi_map_grid.py for any number of time
\* periods: the GridSpec, the cell of each subplot and the progress value.
\* A fraction is kept as <<numerator, denominator>>.

\* time periods found in the table
MaxPlots == 9
\* the largest value of the Columns in Grid slider
MaxColumns == 4

\* A plausible slip: int(num_plots / plot_columns), rounded down.
plot_rows_floor(n, c) == n \div c

\* Line 257: int(np.ceil(num_plots / plot_columns)).
plot_rows(n, c) == 0 - ((0 - n) \div c)

\* Lines 267-268: row = i // plot_columns, col = i % plot_columns.
gs_cell(i, c) == [row |-> i \div c, col |-> i % c]

\* Line 285: (i + 1) / num_plots.
progress(i, n) == <<i + 1, n>>

\* Line 254-264: the button; GridSpec rejects a layout without rows.
LayoutGenerate ==
    /\ page = "layout"
    /\ pc = "done"
    /\ button' = TRUE
    /\ subplots' = <<>>
    /\ idx' = 0
    /\ IF plot_rows(num_plots, plot_columns) <= 0
       THEN /\ exception' = "ValueError"
            /\ fig' = None
            /\ pc' = "done"
       ELSE /\ exception' = "ok"
            /\ fig' = [gs |-> <<plot_rows(num_plots, plot_columns), plot_columns>>]
            /\ pc' = "grid_loop"
    /\ messages' = <<Msg("info", "Found time periods")>>
    /\ UNCHANGED <<widgets, session_state, shapefile_loaded, grid, zi_masked, frame_paths,
                   gif, vrange>>

\* Lines 266-285: iteration i of the loop.
LayoutSubplot ==
    /\ page = "layout"
    /\ pc = "grid_loop"
    /\ idx < num_plots
    /\ subplots' = Append(subplots, [cell |-> gs_cell(idx, plot_columns),
                                     progress |-> progress(idx, num_plots)])
    /\ idx' = idx + 1
    /\ UNCHANGED <<widgets, button, session_state, shapefile_loaded, grid, zi_masked, fig,
                   frame_paths, gif, vrange, messages, exception, pc>>

\* Lines 287-307: the loop is over.
LayoutFinish ==
    /\ page = "layout"
    /\ pc = "grid_loop"
    /\ idx >= num_plots
    /\ pc' = "done"
    /\ messages' = Append(messages, Msg("success", "Maps generated successfully"))
    /\ UNCHANGED <<widgets, button, session_state, shapefile_loaded, grid, zi_masked, fig,
                   frame_paths, idx, gif, subplots, vrange, exception>>

LayoutInit ==
    /\ page = "layout"
    /\ num_plots \in 0..MaxPlots
    /\ plot_columns \in 2..MaxColumns
    /\ csv_file = None
    /\ shapefile_zip = None
    /\ months = <<>>
    /\ selected_month = 0
    /\ interpolation_resolution = Resolution
    /\ x_col = "x"
    /\ button = FALSE
    /\ session_state = GridInitialSessionState
    /\ shapefile_loaded = TRUE
    /\ grid = None
    /\ zi_masked = None
    /\ fig = None
    /\ frame_paths = <<>>
    /\ idx = 0
    /\ gif = None
    /\ subplots = <<>>
    /\ vrange = None
    /\ messages = <<>>
    /\ exception = "ok"
    /\ pc = "done"
    /\ MapperUntouched

LayoutNext == LayoutGenerate \/ LayoutSubplot \/ LayoutFinish

SpecLayout == LayoutInit /\ [][LayoutNext]_vars

\* ================================================================ claims
\* The values of the data column of a table.
ValuesOf(df) == {df[i].v : i \in 1..Len(df)}

\* C1: in every field returned by perform_interpolation (animated-map
\* script, grid page) and by the single-map page, each cell where
\* inside_mask is false is masked and holds NaN, never a finite number.
C1_MaskedCellsUndefined ==
    zi_masked # None =>
        \A c \in Cells(grid.n) :
            ~grid.inside_mask[c] => (zi_masked.mask[c] /\ zi_masked.data[c] = NaN)

\* A frame's field of a GIF build with cells inside and cells outside.
C1_Witness ==
    /\ zi_masked # None
    /\ Len(frame_paths) >= 1
    /\ \E c \in Cells(grid.n) : grid.inside_mask[c] /\ zi_masked.data[c] # NaN
    /\ \E c \in Cells(grid.n) : ~grid.inside_mask[c]

\* C2: all frames of a GIF build, the frames written to the GIF and the
\* preview of the selected month are drawn with one (vmin, vmax): the pair
\* stored in the session state when the files were loaded.
C2_SharedRange ==
    /\ \A k \in 1..Len(frame_paths) :
          /\ frame_paths[k].frame.vmin = session_state.global_vmin.some
          /\ frame_paths[k].frame.vmax = session_state.global_vmax.some
    /\ gif # None =>
          \A k \in 1..Len(gif.some) :
              /\ gif.some[k].vmin = session_state.global_vmin.some
              /\ gif.some[k].vmax = session_state.global_vmax.some
    /\ fig # None =>
          /\ fig.vmin = session_state.global_vmin.some
          /\ fig.vmax = session_state.global_vmax.some

\* A GIF of two frames whose months have different ranges of their own.
C2_Witness ==
    /\ gif # None
    /\ Len(gif.some) >= 2
    /\ \E i, j \in 1..Len(gif.some) :
          <<SeriesMin(gif.some[i].points), SeriesMax(gif.some[i].points)>>
              # <<SeriesMin(gif.some[j].points), SeriesMax(gif.some[j].points)>>

\* C3 (as claimed): every subplot of the grid is drawn with the global
\* (vmin, vmax) computed over all samples.
C3_SubplotsShareRange ==
    \A k \in 1..Len(subplots) : subplots[k].plot.clim = vrange.some

\* C4 (as claimed): the range of a non-empty table has vmin <= vmax, and
\* vmax > vmin when all its values are equal.
C4_RangeWidened ==
    (session_state.gdf_points # None /\ session_state.global_vmin # None) =>
        LET df == session_state.gdf_points.some
            lo == session_state.global_vmin.some
            hi == session_state.global_vmax.some
        IN  Len(df) > 0 =>
                /\ lo <= hi
                /\ Cardinality(ValuesOf(df)) = 1 => hi > lo

\* The rows of the selected months.
SelectedRows(df, mths) == SelectSeq(df, LAMBDA r : r.month \in Range(mths))

\* C5 (as claimed): the range of every frame is (min, max) of the samples of
\* the selected months.
C5_RangeOfSelectedMonths ==
    \A k \in 1..Len(frame_paths) :
        LET sel == SelectedRows(session_state.gdf_points.some, months)
        IN  /\ frame_paths[k].frame.vmin = SeriesMin(sel)
            /\ frame_paths[k].frame.vmax = SeriesMax(sel)

\* C5 (amended): the range of every frame is (min, max) of the values of all
\* rows of the uploaded table, whether their month is selected or not.
C5_RangeOfWholeTable ==
    \A k \in 1..Len(frame_paths) :
        LET vs == ValuesOf(csv_file.some)
            f == frame_paths[k].frame
        IN  /\ f.vmin \in vs
            /\ f.vmax \in vs
            /\ \A v \in vs : f.vmin <= v /\ v <= f.vmax

\* A frame whose range comes from a row of a month that is not selected.
C5_Witness ==
    /\ Len(frame_paths) >= 1
    /\ LET sel == SelectedRows(session_state.gdf_points.some, months)
       IN  <<frame_paths[1].frame.vmin, frame_paths[1].frame.vmax>>
               # <<SeriesMin(sel), SeriesMax(sel)>>

\* C6 (as claimed): no run gets a range out of a table without rows.
C6_EmptyInputRejected ==
    (shapefile_loaded /\ session_state.gdf_points # None) =>
        (Len(session_state.gdf_points.some) = 0 => session_state.global_vmin # Some(NaN))

\* C7 (as claimed): the frames of a GIF build are in ascending month order.
C7_FramesChronological ==
    \A i, j \in 1..Len(frame_paths) :
        i < j => frame_paths[i].path < frame_paths[j].path

\* The selected months without a sample.
EmptyMonths(df, mths) == {m \in Range(mths) : Len(FilterMonth(df, m)) = 0}

\* C8 (as claimed): a finished GIF build has shown one warning for every
\* selected month without samples.
C8_EmptyMonthsReported ==
    (pc = "done" /\ gif # None) =>
        Cardinality({k \in 1..Len(messages) : messages[k].kind = "warning"})
            = Cardinality(EmptyMonths(session_state.gdf_points.some, months))

\* C9 (as claimed): a GIF build that has computed a frame ends with the GIF
\* written from all its frames and every selected month visited, whatever
\* failed on the way.
C9_FailureKeepsSeries ==
    (pc = "done" /\ button /\ Len(frame_paths) >= 1) =>
        /\ gif # None
        /\ idx > Len(months)

\* The rows of a table that a predicate on the key selects, as a set.
RowsWith(df, Key(_), key) == {df[i] : i \in {j \in 1..Len(df) : Key(df[j]) = key}}

MonthKey(r) == r.month

YearMonthKey(r) == <<r.year, r.month>>

\* C10: the model of a frame (animated-map script: month) and of a subplot
\* (grid page: year and month) is fitted with exactly the rows of that key,
\* each of them once.
C10_FittedWithOwnPartition ==
    /\ (page = "animator" /\ Len(frame_paths) >= 1) =>
          LET key == frame_paths[Len(frame_paths)].path
          IN  /\ Range(zi_masked.fit) = RowsWith(csv_file.some, MonthKey, key)
              /\ Len(zi_masked.fit) = Cardinality(Range(zi_masked.fit))
    /\ (page = "animator" /\ fig # None /\ Len(frame_paths) = 0) =>
          /\ Range(zi_masked.fit) = RowsWith(csv_file.some, MonthKey, selected_month)
          /\ Len(zi_masked.fit) = Cardinality(Range(zi_masked.fit))
    /\ (page = "grid" /\ Len(subplots) >= 1) =>
          LET last == subplots[Len(subplots)]
          IN  /\ zi_masked.fit = last.fit
              /\ \A k \in 1..Len(subplots) :
                    /\ Range(subplots[k].fit)
                          = RowsWith(csv_file.some, YearMonthKey, subplots[k].plot.title)
                    /\ Len(subplots[k].fit) = Cardinality(Range(subplots[k].fit))

\* A frame fitted with two of the rows of a table that has rows of another
\* month as well.
C10_Witness ==
    /\ page = "animator"
    /\ Len(frame_paths) >= 1
    /\ Len(zi_masked.fit) >= 2
    /\ Len(zi_masked.fit) < Len(csv_file.some)

\* The mask footprint of a grid: the cells that are not inside.
Footprint(g) == [c \in Cells(g.n) |-> ~g.inside_mask[c]]

\* C11: every frame of a GIF build and every subplot of a grid figure is
\* masked with the one grid the run built before its loop: all of them have
\* the footprint of that grid.
C11_SharedGrid ==
    /\ \A k \in 1..Len(frame_paths) : frame_paths[k].frame.mask = Footprint(grid)
    /\ \A k \in 1..Len(subplots) : subplots[k].plot.mask = Footprint(grid)

\* Two frames of one GIF build on a grid with cells inside and outside.
C11_Witness ==
    /\ Len(frame_paths) >= 2
    /\ \E c \in Cells(grid.n) : grid.inside_mask[c]
    /\ \E c \in Cells(grid.n) : ~grid.inside_mask[c]

C13_GridShape ==
    (grid # None /\ interpolation_resolution >= 2) =>
        LET n == interpolation_resolution
            box == total_bounds(CoreBoundary)
        IN  /\ DOMAIN grid.xi = (1..n) \X (1..n)
            /\ DOMAIN grid.yi = (1..n) \X (1..n)
            /\ DOMAIN grid.inside_mask = (1..n) \X (1..n)
            /\ \A r \in 1..n :
                  /\ grid.xi[<<r, 1>>] = box.minx * (n - 1)
                  /\ grid.xi[<<r, n>>] = box.maxx * (n - 1)
                  /\ grid.yi[<<1, r>>] = box.miny * (n - 1)
                  /\ grid.yi[<<n, r>>] = box.maxy * (n - 1)
                  /\ \A k \in 1..(n - 1) :
                        /\ grid.xi[<<r, k + 1>>] - grid.xi[<<r, k>>] = box.maxx - box.minx
                        /\ grid.yi[<<k + 1, r>>] - grid.yi[<<k, r>>] = box.maxy - box.miny

\* A grid of the largest resolution over a bounding box that is not square.
C13_Witness ==
    /\ grid # None
    /\ interpolation_resolution = Resolution
    /\ total_bounds(CoreBoundary).maxx # total_bounds(CoreBoundary).maxy
    /\ total_bounds(CoreBoundary).miny < total_bounds(CoreBoundary).maxy

\* A lattice point lies in the closed rectangle (interior, edges, vertices).
OnOrInside(rect, x, y, s) ==
    /\ rect.minx * s <= x /\ x <= rect.maxx * s
    /\ rect.miny * s <= y /\ y <= rect.maxy * s

\* C14 (as claimed): every lattice point in the interior, on an edge or on a
\* vertex of the boundary polygon is marked inside, every other one outside.
C14_BoundaryInclusive ==
    (grid # None /\ Len(CoreBoundary) = 1) =>
        \A c \in DOMAIN grid.inside_mask :
            grid.inside_mask[c]
                = OnOrInside(CoreBoundary[1], grid.xi[c], grid.yi[c],
                             Scale(interpolation_resolution))

Area(gdf) ==
    LET RECURSIVE sum(_)
        sum(k) == IF k = 0 THEN 0
                  ELSE (gdf[k].maxx - gdf[k].minx) * (gdf[k].maxy - gdf[k].miny) + sum(k - 1)
    IN  sum(Len(gdf))

\* C16 (as claimed): for a boundary of zero area (and a resolution of 2 or
\* more) no grid is returned, and so no field is interpolated and no figure
\* drawn on an all-false mask.
C16_ZeroAreaRejected ==
    (Area(CoreBoundary) = 0 /\ interpolation_resolution >= 2) =>
        (grid = None /\ zi_masked = None /\ fig = None)

\* The distinct sample coordinates handed to Rbf.
Locations(xyd) == {<<xyd[i][1], xyd[i][2]>> : i \in 1..Len(xyd)}

\* C17: no field is ever returned for samples with fewer than 2 distinct
\* coordinates: the fit raises, and the GIF loop never gets past a month
\* whose samples, one or several, all share one location.
C17_FitNeedsTwoLocations ==
    /\ zi_masked # None => Cardinality(Locations(zi_masked.xyd)) >= 2
    /\ page = "animator" =>
          \A k \in 1..(idx - 1) :
              LET month_data == FilterMonth(csv_file.some, months[k])
              IN  Len(month_data) > 0 => Cardinality(Locations(RbfInput(month_data))) >= 2

\* A GIF build stopped by the fit of a month whose samples share one location.
C17_Witness ==
    /\ page = "animator"
    /\ exception = "ZeroDivisionError"
    /\ Len(frame_paths) >= 1
    /\ idx >= 1
    /\ Cardinality(Locations(RbfInput(FilterMonth(csv_file.some, months[idx])))) = 1

\* Two consecutive fields come from calls with the same arguments: the same
\* samples, grid and mask (value column, kernel and smoothing never change).
SameArguments ==
    /\ zi_masked # None
    /\ zi_masked' # None
    /\ zi_masked'.fit = zi_masked.fit
    /\ grid' = grid

\* The two fields agree: Rbf was handed the same coordinates and values, and
\* the mask is the same.
SameField ==
    /\ zi_masked'.xyd = zi_masked.xyd
    /\ zi_masked'.mask = zi_masked.mask

C20_SharedInputsReadOnly ==
    [][pc = "gif_loop" =>
          /\ grid' = grid
          /\ session_state'.global_vmin = session_state.global_vmin
          /\ session_state'.global_vmax = session_state.global_vmax]_vars

\* The loop has computed a frame and goes on.
C20_Witness ==
    /\ pc = "gif_loop"
    /\ Len(frame_paths) >= 1
    /\ idx <= Len(months)

\* The cells of a grid that lie inside the boundary.
InsideSet(g) == {c \in Cells(g.n) : g.inside_mask[c]}

\* C21: the fitted model is evaluated at the inside cells and nowhere else
\* (the points handed to it are the coordinates of the inside cells, one
\* point per cell), and the value evaluated for a cell's point is the value
\* of the field at that cell.
C21_EvaluatedAtInsideCells ==
    (grid # None /\ zi_masked # None) =>
        /\ Len(zi_masked.at) = Cardinality(InsideSet(grid))
        /\ Range(zi_masked.at) = {<<grid.xi[c], grid.yi[c]>> : c \in InsideSet(grid)}
        /\ \A k \in 1..Len(zi_masked.at) : \A c \in InsideSet(grid) :
              <<grid.xi[c], grid.yi[c]>> = zi_masked.at[k] => zi_masked.data[c] = zi_masked.vals[k]

\* A field over two inside cells whose evaluated values differ, with cells
\* left outside.
C21_Witness ==
    /\ grid # None
    /\ zi_masked # None
    /\ Len(zi_masked.at) = 2
    /\ zi_masked.vals[1] # zi_masked.vals[2]
    /\ InsideSet(grid) # Cells(grid.n)

\* C22: on the single-map page every inside cell of the field lies between
\* the smallest and the largest sample value of the fitted table, and the map
\* is drawn with exactly that colour range.
C22_ClippedToSampleRange ==
    (page = "core_single" /\ grid # None /\ zi_masked # None) =>
        /\ \A c \in InsideSet(grid) :
              /\ Min(ValuesOf(zi_masked.fit)) <= zi_masked.data[c]
              /\ zi_masked.data[c] <= Max(ValuesOf(zi_masked.fit))
        /\ fig # None
        /\ fig.vmin = Min(ValuesOf(zi_masked.fit))
        /\ fig.vmax = Max(ValuesOf(zi_masked.fit))

\* A single-map field with inside cells at both ends of the range of samples
\* whose values differ.
C22_Witness ==
    /\ page = "core_single"
    /\ grid # None
    /\ zi_masked # None
    /\ Min(ValuesOf(zi_masked.fit)) < Max(ValuesOf(zi_masked.fit))
    /\ \E c, d \in InsideSet(grid) :
          /\ zi_masked.data[c] = Min(ValuesOf(zi_masked.fit))
          /\ zi_masked.data[d] = Max(ValuesOf(zi_masked.fit))

\* (year, month) a comes before (year, month) b in the calendar.
Earlier(a, b) == a[1] * 12 + a[2] < b[1] * 12 + b[2]

\* The (year, month) keys that have a sample in a table.
KeysOf(df) == {<<df[i].year, df[i].month>> : i \in 1..Len(df)}

\* C23: on the grid page the subplots are titled by (year, month) keys of the
\* stored table, each later in the calendar than the one before it (so no key
\* twice), whatever the order of the table's rows; the figure that is shown
\* has a subplot for every key of the table.
C23_SubplotsPerKeyAscending ==
    (page = "grid" /\ session_state.gdf_points # None) =>
        /\ \A i \in 1..Len(subplots) :
              subplots[i].plot.title \in KeysOf(session_state.gdf_points.some)
        /\ \A i \in 1..(Len(subplots) - 1) :
              Earlier(subplots[i].plot.title, subplots[i + 1].plot.title)
        /\ fig # None =>
              {subplots[i].plot.title : i \in 1..Len(subplots)}
                  = KeysOf(session_state.gdf_points.some)

\* A figure of two subplots for a table whose first row belongs to the later
\* of the two periods.
C23_Witness ==
    /\ page = "grid"
    /\ fig # None
    /\ Len(subplots) = 2
    /\ <<session_state.gdf_points.some[1].year, session_state.gdf_points.some[1].month>>
          = subplots[2].plot.title

\* The selected months that have a sample in the stored table.
MonthsWithData == {m \in Range(months) : Len(month_data_of(session_state, m)) > 0}

\* C24: the frames saved by a build have pairwise distinct paths, each the
\* path of a selected month that has a sample; the GIF that is written holds
\* one frame for each selected month that has a sample and no other frame.
C24_OneFramePerSelectedMonthWithData ==
    (page = "animator" /\ session_state.gdf_points # None) =>
        /\ \A i \in 1..Len(frame_paths) : frame_paths[i].path \in MonthsWithData
        /\ \A i, j \in 1..Len(frame_paths) :
              i # j => frame_paths[i].path # frame_paths[j].path
        /\ gif # None =>
              /\ Len(gif.some) = Cardinality(MonthsWithData)
              /\ {frame_paths[i].path : i \in 1..Len(frame_paths)} = MonthsWithData
              /\ \A i \in 1..Len(frame_paths) : gif.some[i] = frame_paths[i].frame

\* A GIF of one frame written while a month that has samples is not selected.
C24_Witness ==
    /\ page = "animator"
    /\ gif # None
    /\ Len(gif.some) = 1
    /\ \E m \in Months \ Range(months) : Len(month_data_of(session_state, m)) > 0

\* A GIF of one frame written while a selected month has no sample.
C24_WitnessSkipped ==
    /\ page = "animator"
    /\ gif # None
    /\ Len(gif.some) = 1
    /\ \E m \in Range(months) : Len(month_data_of(session_state, m)) = 0

\* C25: for the boundary and the resolution a grid was built for, the grid
\* block of the single-map page and create_interpolation_grid of the other
\* pages give the same coordinate grids and the same inside mask.
C25_GridBuildsEquivalent ==
    grid # None =>
        /\ grid = create_interpolation_grid(CoreBoundary, interpolation_resolution)
        /\ grid = single_map_grid(CoreBoundary, interpolation_resolution)

\* C26: on the study-site mapper, whenever a download is offered the location
\* name is a preset and the data offered is the map of that location and of
\* the sample points as they are now.
C26_DownloadIsCurrentMap ==
    (page = "mapper" /\ download_button # None) =>
        /\ location_coords_of(location_name) # None
        /\ download_button.some
              = folium_map(location_coords_of(location_name).some, session_state.sample_points)

\* C27: a run started by Add Point with a name appends the row of the inputs
\* to the end of sample_points, whatever the latitude and longitude; without a
\* name it leaves sample_points as it is and shows an error; a run started by
\* Clear All Points leaves sample_points empty.
C27_AddPointAppendsOneRow ==
    [][page = "mapper" =>
          /\ button' = "add" =>
                IF point_name # ""
                THEN session_state'.sample_points
                         = Append(session_state.sample_points, NewPoint)
                ELSE /\ session_state'.sample_points = session_state.sample_points
                     /\ \E k \in 1..Len(messages') : messages'[k].kind = "error"
          /\ button' = "clear" => session_state'.sample_points = <<>>]_vars

\* C28: a run of the animated-map script that tried to load a ZIP without a
\* .shp member, or with one that cannot be read, shows an error, leaves the
\* session state as it was and produces no grid, field, figure, frame or GIF,
\* also when the session state holds a boundary of an earlier run.
C28_FailedLoadStopsRun ==
    [][(/\ page = "animator"
        /\ csv_file' # None
        /\ shapefile_zip' # None
        /\ shapefile_zip'.some.kind # "shapefile"
        /\ exception' = "ok")
       => /\ \E k \in 1..Len(messages') : messages'[k].kind = "error"
          /\ session_state' = session_state
          /\ grid' = None
          /\ zi_masked' = None
          /\ fig' = None
          /\ frame_paths' = <<>>
          /\ gif' = None]_vars

\* A failed load while the boundary of an earlier upload is still stored.
C28_Witness ==
    /\ page = "animator"
    /\ csv_file # None
    /\ shapefile_zip # None
    /\ shapefile_zip.some.kind # "shapefile"
    /\ session_state.gdf_boundary # None
    /\ \E k \in 1..Len(messages) : messages[k].kind = "error"

\* C29: a run of the animated-map script that loaded the files while the
\* selected preview month has no sample shows the warning and nothing else: no
\* preview, no GIF loop, no frame, no GIF, whatever data the other selected
\* months have; so a build runs only while the preview month has samples.
C29_BuildNeedsPreviewData ==
    (/\ page = "animator"
     /\ shapefile_loaded
     /\ Len(month_data_of(session_state, selected_month)) = 0)
    => /\ \E k \in 1..Len(messages) : messages[k].kind = "warning"
       /\ fig = None
       /\ pc = "done"
       /\ frame_paths = <<>>
       /\ gif = None

\* The warning of a run whose preview month has no sample while another
\* selected month has samples at two locations.
C29_Witness ==
    /\ page = "animator"
    /\ shapefile_loaded
    /\ Len(month_data_of(session_state, selected_month)) = 0
    /\ \E m \in Range(months) : Len(month_data_of(session_state, m)) >= 2
    /\ \E k \in 1..Len(messages) : messages[k].kind = "warning"

\* C30: the layout of n time periods in c columns has ceil(n / c) rows;
\* subplot i is at row i // c and column i % c, a cell of the rows x c grid
\* that no other subplot has; the progress after subplot i is (i + 1) / n,
\* which is 1 at the last subplot and only there.
C30_LayoutCells ==
    (page = "layout" /\ fig # None) =>
        /\ fig.gs[2] = plot_columns
        /\ fig.gs[1] * plot_columns >= num_plots
        /\ (fig.gs[1] - 1) * plot_columns < num_plots
        /\ \A k \in 1..Len(subplots) :
              /\ subplots[k].cell.row * plot_columns + subplots[k].cell.col = k - 1
              /\ subplots[k].cell.row \in 0..(fig.gs[1] - 1)
              /\ subplots[k].cell.col \in 0..(plot_columns - 1)
              /\ subplots[k].progress[1] = k
              /\ subplots[k].progress[2] = num_plots
              /\ subplots[k].progress[1] <= subplots[k].progress[2]
              /\ (subplots[k].progress[1] = subplots[k].progress[2]) <=> (k = num_plots)
        /\ \A j, k \in 1..Len(subplots) : j # k => subplots[j].cell # subplots[k].cell
        /\ pc = "done" => Len(subplots) = num_plots

\* A finished layout whose last row is not full.
C30_Witness ==
    /\ page = "layout"
    /\ fig # None
    /\ pc = "done"
    /\ Len(subplots) = num_plots
    /\ num_plots > plot_columns
    /\ num_plots % plot_columns # 0

=============================================================================
